---------------------------- MODULE Spec2Model ----------------------------
(***************************************************************************)
(* A model of the account-state authentication layer                       *)
(* (types/src/account_state_blob.rs) and of the transaction-validation     *)
(* cache (vm-validator/src/vm_validator.rs).                               *)
(*                                                                         *)
(* The module holds several specifications over one set of variables:      *)
(*   Spec        the VMValidator state machine over its DbReader           *)
(*   SpecBlob    the construction paths and operations of AccountStateBlob *)
(*   SpecVerify  AccountStateWithProof::verify over its inputs             *)
(*   SpecSeq     get_account_sequence_number over the reader's accounts    *)
(* Each specification leaves the variables of the others at their idle     *)
(* value.                                                                  *)
(*                                                                         *)
(* The fail_point! macros of vm_validator.rs (lines 81-85 and 111-115)     *)
(* expand to nothing unless the crate is built with the `failpoints`       *)
(* feature; FailPointsEnabled states that build choice.                    *)
(***************************************************************************)
EXTENDS Integers, Sequences, FiniteSets, TLC

(***************************************************************************)
(* Bounds of the model.                                                    *)
(***************************************************************************)
\* the reader's ledger versions are 0..MaxVersion
MaxVersion == 2
\* the epochs of the reconfigurations handed to restart are 1..MaxEpoch
MaxEpoch == 1
\* raw byte vectors are of length 0..MaxLen
MaxLen == 2
\* sequence numbers, nonces and window sizes (u64) are 0..MaxSeq
MaxSeq == 1

\* the storage reader all validators are built on, the validator handles,
\* the worker threads calling validate_transaction, and the transactions
Readers  == {"db1"}
Handles  == {"v1", "v2"}
Threads  == {"t1", "t2"}
Txns     == {"txn1", "txn2"}
Epochs   == 1..MaxEpoch
ByteVals == {0, 1}
Addresses == {"0xA", "0xB"}

\* ledger_view.version() of a ledger with no transaction (None)
NoVersion == -1
Versions  == 0..MaxVersion

NoValidator == [tag |-> "none"]
Idle        == [tag |-> "idle"]
NoOp        == [op |-> "none"]
\* Option<T>: None, and Some(x)
None        == <<>>
Some(x)     == <<x>>

\* the build is made without the `failpoints` feature
FailPointsEnabled == FALSE

VARIABLES
    db,          \* db[r]: the latest committed version of DbReader r
    validators,  \* validators[h]: the VMValidator behind handle h
    calls,       \* calls[t]: the validate_transaction call thread t is in
    refreshed,   \* refreshed[h]: the reader's latest version when the view
                 \* of h was last built: by new or clone, and then by each
                 \* notify_commit that returned (history)
    lastOp       \* the operation that returned last, and what it returned

VARIABLES
    blob,        \* the AccountStateBlob in hand
    copy,        \* what was made of it: its clone, or its decoded encoding
    blobOp       \* the blob operation that returned last, and its value

VARIABLES
    swp,         \* the AccountStateWithProof in hand
    verified     \* the verify call that returned last, and its value

VARIABLES
    accounts,    \* accounts[a]: the latest account state the reader holds
    seqOp        \* the get_account_sequence_number call that returned last

valVars  == <<db, validators, calls, refreshed, lastOp>>
blobVars == <<blob, copy, blobOp>>
verVars  == <<swp, verified>>
seqVars  == <<accounts, seqOp>>
vars     == <<valVars, blobVars, verVars, seqVars>>

(***************************************************************************)
(* Results.                                                                *)
(***************************************************************************)
Ok(v)      == [tag |-> "Ok", val |-> v]
Err(e)     == [tag |-> "Err", err |-> e]
\* an error value (anyhow::Error) with its message
Msg(m)     == [msg |-> m]
Panic(msg) == [tag |-> "panic", msg |-> msg]
IsOk(r)    == r.tag = "Ok"
IsErr(r)   == r.tag = "Err"
IsPanic(r) == r.tag = "panic"

(***************************************************************************)
(* Byte vectors.                                                           *)
(***************************************************************************)
RECURSIVE SeqsUpTo(_, _)
SeqsUpTo(S, n) ==
    IF n = 0 THEN {<<>>}
    ELSE LET shorter == SeqsUpTo(S, n - 1)
         IN  shorter \cup {Append(q, x) : q \in {p \in shorter : Len(p) = n - 1},
                                          x \in S}

ByteSeqs == SeqsUpTo(ByteVals, MaxLen)

Drop(q, n) == SubSeq(q, n + 1, Len(q))
Take(q, n) == SubSeq(q, 1, n)

\* the order of Vec<u8> keys in a BTreeMap: lexicographic
RECURSIVE LexLess(_, _)
LexLess(p, q) ==
    IF q = <<>> THEN FALSE
    ELSE IF p = <<>> THEN TRUE
    ELSE IF p[1] # q[1] THEN p[1] < q[1]
    ELSE LexLess(Tail(p), Tail(q))

(***************************************************************************)
(* The canonical codec (bcs).  A length is one byte (a ULEB128 below 128)  *)
(* and a u64 is one word; a Vec<u8> is its length and its bytes; a map is  *)
(* its number of entries and the entries, key and value, in ascending key  *)
(* order.  Decoding rejects a truncated input, an input with bytes left    *)
(* over, and a map whose keys are not strictly ascending.                  *)
(***************************************************************************)
bcs_bytes(b) == <<Len(b)>> \o b

\* the least key of a non-empty set of keys
MinKey(K) == CHOOSE k \in K : \A j \in K \ {k} : LexLess(k, j)

RECURSIVE bcs_entries(_, _)
bcs_entries(m, K) ==
    IF K = {} THEN <<>>
    ELSE LET k == MinKey(K)
         IN  bcs_bytes(k) \o bcs_bytes(m[k]) \o bcs_entries(m, K \ {k})

\* bcs::to_bytes(&AccountState): the BTreeMap<Vec<u8>, Vec<u8>>
bcs_to_bytes_AccountState(account_state) ==
    <<Cardinality(DOMAIN account_state)>>
       \o bcs_entries(account_state, DOMAIN account_state)

\* one Vec<u8> off the front of the input: the vector and the rest
bcs_take_bytes(input) ==
    IF input = <<>> THEN Err(Msg("unexpected end of input"))
    ELSE IF Len(input) - 1 < input[1] THEN Err(Msg("unexpected end of input"))
    ELSE Ok([bytes |-> Take(Drop(input, 1), input[1]),
             rest  |-> Drop(input, 1 + input[1])])

EmptyMap == [k \in {} |-> <<>>]

RECURSIVE bcs_take_entries(_, _, _, _)
bcs_take_entries(input, n, last, acc) ==
    IF n = 0
    THEN IF input = <<>> THEN Ok(acc) ELSE Err(Msg("remaining input"))
    ELSE LET key == bcs_take_bytes(input)
         IN  IF IsErr(key) THEN key
             ELSE LET val == bcs_take_bytes(key.val.rest)
                  IN  IF IsErr(val) THEN val
                      ELSE IF last # <<>> /\ ~LexLess(last[1], key.val.bytes)
                           THEN Err(Msg("non-canonical map"))
                      ELSE bcs_take_entries(
                              val.val.rest, n - 1, <<key.val.bytes>>,
                              [k \in DOMAIN acc \cup {key.val.bytes} |->
                                  IF k = key.val.bytes THEN val.val.bytes
                                  ELSE acc[k]])

\* bcs::from_bytes::<AccountState>(bytes)
bcs_from_bytes_AccountState(bytes) ==
    IF bytes = <<>> THEN Err(Msg("unexpected end of input"))
    ELSE bcs_take_entries(Drop(bytes, 1), bytes[1], <<>>, EmptyMap)

(***************************************************************************)
(* Hashing (aptos_crypto): a hasher is seeded with the salt of the type it *)
(* hashes and absorbs bytes; a HashValue is the term of what was absorbed  *)
(* (no two inputs collide).                                                *)
(***************************************************************************)
AccountStateBlobHasher_default == [salt |-> "AccountStateBlob", data |-> <<>>]
hasher_update(hasher, bytes) == [hasher EXCEPT !.data = @ \o bytes]
hasher_finish(hasher) == [tag |-> "HashValue", salt |-> hasher.salt,
                          data |-> hasher.data]
\* HashValue::default()
HashValue_zero == [tag |-> "HashValue", salt |-> "zero", data |-> <<>>]

\* AccountAddress::hash()
AccountAddress_hash(address) ==
    [tag |-> "HashValue", salt |-> "AccountAddress", data |-> <<address>>]

\* fn hash_blob(blob) of the tests
hash_blob(bytes) ==
    hasher_finish(hasher_update(AccountStateBlobHasher_default, bytes))

(***************************************************************************)
(* AccountState and the resources in it (account_state.rs,                 *)
(* account_config): a map from resource paths to the resources' bytes.     *)
(***************************************************************************)
AccountResource_path      == <<0>>
AptosAccountResource_path == <<0, 0>>
BalanceResource_path      == <<0, 1>>
CRSNResource_path         == <<1>>

Words == 0..MaxSeq

\* the bytes of an AccountResource: its sequence_number
AccountResource_bytes(sequence_number) == <<sequence_number>>
\* the bytes of a CRSNResource: its min_nonce and size
CRSNResource_bytes(min_nonce, size) == <<min_nonce, size>>

bcs_from_bytes_AccountResource(bytes) ==
    IF Len(bytes) < 1 THEN Err(Msg("unexpected end of input"))
    ELSE IF Len(bytes) > 1 THEN Err(Msg("remaining input"))
    ELSE Ok([sequence_number |-> bytes[1]])

bcs_from_bytes_CRSNResource(bytes) ==
    IF Len(bytes) < 2 THEN Err(Msg("unexpected end of input"))
    ELSE IF Len(bytes) > 2 THEN Err(Msg("remaining input"))
    ELSE Ok([min_nonce |-> bytes[1], size |-> bytes[2]])

\* TryFrom<(&AccountResource, &AptosAccountResource, &BalanceResource)>
\* for AccountState
AccountState_from_resources(sequence_number, balance) ==
    [k \in {AccountResource_path, AptosAccountResource_path,
            BalanceResource_path} |->
        IF k = AccountResource_path THEN AccountResource_bytes(sequence_number)
        ELSE IF k = BalanceResource_path THEN <<balance>>
        ELSE <<>>]

\* the account states of the model: an account resource and a CRSN resource,
\* each absent (<<>>), or present (<<bytes>>) with bytes that decode or not
AccountResourceOptions ==
    {<<>>} \cup {<<AccountResource_bytes(n)>> : n \in Words} \cup {<< <<>> >>}
CRSNResourceOptions ==
    {<<>>} \cup {<<CRSNResource_bytes(m, z)>> : m \in Words, z \in Words}
           \cup {<< <<0>> >>}

MakeAccountState(account, crsn) ==
    [k \in (IF account = <<>> THEN {} ELSE {AccountResource_path})
           \cup (IF crsn = <<>> THEN {} ELSE {CRSNResource_path}) |->
        IF k = AccountResource_path THEN account[1] ELSE crsn[1]]

AccountStates ==
    {MakeAccountState(a, c) : a \in AccountResourceOptions,
                              c \in CRSNResourceOptions}

(***************************************************************************)
(* AccountStateBlob                                                        *)
(***************************************************************************)
NoBlob == [tag |-> "none"]

\* a constructor that leaves the hasher as seeded
AccountStateBlob_new_NoUpdate(bytes) ==
    [blob |-> bytes, hash |-> hasher_finish(AccountStateBlobHasher_default)]

\* fn new(blob: Vec<u8>)
AccountStateBlob_new(bytes) ==
    LET hasher == hasher_update(AccountStateBlobHasher_default, bytes)
    IN  [blob |-> bytes, hash |-> hasher_finish(hasher)]

\* #[derive(Serialize)], the hash skipped: the one field blob
AccountStateBlob_serialize(self) == bcs_bytes(self.blob)

\* a derived Deserialize: the skipped field gets its default
AccountStateBlob_deserialize_Derived(input) ==
    LET raw == bcs_take_bytes(input)
    IN  IF IsErr(raw) THEN raw
        ELSE IF raw.val.rest # <<>> THEN Err(Msg("remaining input"))
        ELSE Ok([blob |-> raw.val.bytes, hash |-> HashValue_zero])

\* impl Deserialize for AccountStateBlob: RawBlob, then new
AccountStateBlob_deserialize(input) ==
    LET raw == bcs_take_bytes(input)
    IN  IF IsErr(raw) THEN raw
        ELSE IF raw.val.rest # <<>> THEN Err(Msg("remaining input"))
        ELSE Ok(AccountStateBlob_new(raw.val.bytes))

\* impl From<Vec<u8>> for AccountStateBlob
AccountStateBlob_from_bytes(bytes) == AccountStateBlob_new(bytes)

\* impl TryFrom<&AccountState> for AccountStateBlob
AccountStateBlob_try_from_AccountState(account_state) ==
    Ok(AccountStateBlob_new(bcs_to_bytes_AccountState(account_state)))

\* impl TryFrom<(&AccountResource, &AptosAccountResource, &BalanceResource)>
AccountStateBlob_try_from_resources(sequence_number, balance) ==
    AccountStateBlob_try_from_AccountState(
        AccountState_from_resources(sequence_number, balance))

\* impl TryFrom<&AccountStateBlob> for AccountState
AccountState_try_from(account_state_blob) ==
    bcs_from_bytes_AccountState(account_state_blob.blob)

\* hex::encode: two lowercase hexadecimal digits for each byte
HexDigits == <<"0", "1", "2", "3", "4", "5", "6", "7",
               "8", "9", "a", "b", "c", "d", "e", "f">>
hex_encode(bytes) ==
    [i \in 1..(2 * Len(bytes)) |->
        IF i % 2 = 1 THEN HexDigits[(bytes[(i + 1) \div 2] \div 16) + 1]
        ELSE HexDigits[(bytes[i \div 2] % 16) + 1]]

\* format!("{:#?}", account_state): the Debug rendering of an AccountState
AccountState_fmt(account_state) ==
    [label |-> "AccountState", state |-> account_state]

\* a rendering that hands the decode error to its caller
AccountStateBlob_fmt_Propagate(self) ==
    LET account_state == bcs_from_bytes_AccountState(self.blob)
    IN  IF IsErr(account_state) THEN account_state
        ELSE Ok([Raw |-> hex_encode(self.blob),
                 Decoded |-> AccountState_fmt(account_state.val)])

\* impl fmt::Debug for AccountStateBlob
AccountStateBlob_fmt(self) ==
    LET account_state == bcs_from_bytes_AccountState(self.blob)
        decoded == IF IsOk(account_state) THEN AccountState_fmt(account_state.val)
                   ELSE [label |-> "[fail]"]
    IN  Ok([Raw |-> hex_encode(self.blob), Decoded |-> decoded])

\* the operations on a blob (&self): the blob afterwards and the value
\* AsRef<[u8]>, From<&AccountStateBlob> for Vec<u8>, CryptoHash::hash,
\* Serialize, TryFrom<&AccountStateBlob> for AccountState, fmt::Debug
BlobReadOps ==
    {"as_ref", "to_vec", "hash", "serialize", "to_account_state", "fmt"}

AccountStateBlob_read(self, op) ==
    [self |-> self,
     ret  |-> CASE op = "as_ref" -> self.blob
                [] op = "to_vec" -> self.blob
                [] op = "hash" -> self.hash
                [] op = "serialize" -> AccountStateBlob_serialize(self)
                [] op = "to_account_state" -> AccountState_try_from(self)
                [] op = "fmt" -> AccountStateBlob_fmt(self)]

(***************************************************************************)
(* AccountStateProof (types/src/proof): a proof is the term of what its    *)
(* path was built for, the ledger root, the version, the key and the leaf  *)
(* (the hash of the blob, or none for an absent account); verification     *)
(* recomputes the root for the query and compares.                         *)
(***************************************************************************)
Roots == {"rootA", "rootB"}
LedgerInfos == [version : Versions, root : Roots]

blob_hash(opt_blob) == IF opt_blob = None THEN None ELSE Some(opt_blob[1].hash)

AccountStateProof_verify(proof, ledger_info, state_version, key, opt_blob) ==
    IF state_version > ledger_info.version
    THEN Err(Msg("state version is newer than the ledger"))
    ELSE IF /\ proof.root = ledger_info.root
            /\ proof.version = state_version
            /\ proof.key = key
            /\ proof.leaf = blob_hash(opt_blob)
         THEN Ok("unit")
         ELSE Err(Msg("ProofMismatch"))

(***************************************************************************)
(* AccountStateWithProof                                                   *)
(***************************************************************************)
NoStateWithProof == [tag |-> "none"]

\* the error of ensure!: "State version ({}) is not expected ({})."
VersionMismatch(state_version, expected) ==
    [msg |-> "State version is not expected",
     state_version |-> state_version, expected |-> expected]

\* pub fn new(version, blob, proof)
AccountStateWithProof_new(version, opt_blob, proof) ==
    [version |-> version, blob |-> opt_blob, proof |-> proof]

\* a verify that asks the proof alone
AccountStateWithProof_verify_NoEnsure(self, ledger_info, version, address) ==
    AccountStateProof_verify(self.proof, ledger_info, version,
                             AccountAddress_hash(address), self.blob)

\* a verify that drops the proof's answer
AccountStateWithProof_verify_Swallow(self, ledger_info, version, address) ==
    IF self.version # version
    THEN Err(VersionMismatch(self.version, version))
    ELSE Ok("unit")

\* pub fn verify(&self, ledger_info, version, address)
AccountStateWithProof_verify(self, ledger_info, version, address) ==
    IF self.version # version
    THEN Err(VersionMismatch(self.version, version))
    ELSE AccountStateProof_verify(self.proof, ledger_info, version,
                                  AccountAddress_hash(address), self.blob)

(***************************************************************************)
(* Resource lookup in an AccountState (account_state.rs): the bytes at the *)
(* resource's path, decoded; no bytes there is Ok(None).                   *)
(***************************************************************************)
AccountState_get_crsn_resource(account_state) ==
    IF CRSNResource_path \in DOMAIN account_state
    THEN LET crsn == bcs_from_bytes_CRSNResource(account_state[CRSNResource_path])
         IN  IF IsErr(crsn) THEN crsn ELSE Ok(Some(crsn.val))
    ELSE Ok(None)

AccountState_get_account_resource(account_state) ==
    IF AccountResource_path \in DOMAIN account_state
    THEN LET res == bcs_from_bytes_AccountResource(
                       account_state[AccountResource_path])
         IN  IF IsErr(res) THEN res ELSE Ok(Some(res.val))
    ELSE Ok(None)

\* impl TryFrom<&AccountStateBlob> for AccountResource
AccountResource_try_from(account_state_blob) ==
    LET account_state == AccountState_try_from(account_state_blob)
    IN  IF IsErr(account_state) THEN account_state
        ELSE LET res == AccountState_get_account_resource(account_state.val)
             IN  IF IsErr(res) THEN res
                 ELSE IF res.val = None
                      THEN Err(Msg("AccountResource not found."))
                 ELSE Ok(res.val[1])

(***************************************************************************)
(* get_account_sequence_number                                             *)
(***************************************************************************)
\* AccountSequenceInfo
Sequential(seqno) == [tag |-> "Sequential", seqno |-> seqno]
CRSN(min_nonce, size) == [tag |-> "CRSN", min_nonce |-> min_nonce, size |-> size]

\* DbReader::get_latest_account_state(address)
get_latest_account_state(storage, address, outcome) ==
    IF outcome # "ok" THEN Err(Msg("storage read failed"))
    ELSE Ok(storage[address])

\* a resolution that fails on an account the storage does not hold
get_account_sequence_number_NoDefault(storage, address, outcome) ==
    LET read == get_latest_account_state(storage, address, outcome)
    IN  IF IsErr(read) THEN read
        ELSE IF read.val = None THEN Err(Msg("account not found"))
        ELSE LET account_state == AccountState_try_from(read.val[1])
             IN  IF IsErr(account_state) THEN account_state
                 ELSE LET crsn == AccountState_get_crsn_resource(account_state.val)
                          res == AccountResource_try_from(read.val[1])
                      IN  IF IsOk(crsn) /\ crsn.val # None
                          THEN Ok(CRSN(crsn.val[1].min_nonce, crsn.val[1].size))
                          ELSE IF IsErr(res) THEN res
                          ELSE Ok(Sequential(res.val.sequence_number))

\* a resolution that reads the account resource before the CRSN resource
get_account_sequence_number_CounterFirst(storage, address, outcome) ==
    LET read == get_latest_account_state(storage, address, outcome)
    IN  IF IsErr(read) THEN read
        ELSE IF read.val = None THEN Ok(Sequential(0))
        ELSE LET account_state == AccountState_try_from(read.val[1])
                 res == AccountResource_try_from(read.val[1])
             IN  IF IsErr(res) THEN res
                 ELSE LET crsn == AccountState_get_crsn_resource(account_state.val)
                      IN  IF IsOk(crsn) /\ crsn.val # None
                          THEN Ok(CRSN(crsn.val[1].min_nonce, crsn.val[1].size))
                          ELSE Ok(Sequential(res.val.sequence_number))

\* a resolution that seeds every counter account at 0
get_account_sequence_number_SeedZero(storage, address, outcome) ==
    LET read == get_latest_account_state(storage, address, outcome)
    IN  IF IsErr(read) THEN read
        ELSE IF read.val = None THEN Ok(Sequential(0))
        ELSE LET account_state == AccountState_try_from(read.val[1])
             IN  IF IsErr(account_state) THEN account_state
                 ELSE LET crsn == AccountState_get_crsn_resource(account_state.val)
                          res == AccountResource_try_from(read.val[1])
                      IN  IF IsOk(crsn) /\ crsn.val # None
                          THEN Ok(CRSN(crsn.val[1].min_nonce, crsn.val[1].size))
                          ELSE IF IsErr(res) THEN res
                          ELSE Ok(Sequential(0))

\* pub fn get_account_sequence_number(storage, address)
get_account_sequence_number(storage, address, outcome) ==
    IF FailPointsEnabled
    THEN Err(Msg("Injected error in get_account_sequence_number"))
    ELSE
    LET read == get_latest_account_state(storage, address, outcome)
    IN  IF IsErr(read) THEN read
        ELSE IF read.val = None THEN Ok(Sequential(0))
        ELSE LET blob_ == read.val[1]
                 account_state == AccountState_try_from(blob_)
             IN  IF IsErr(account_state) THEN account_state
                 ELSE LET crsn == AccountState_get_crsn_resource(account_state.val)
                          res == AccountResource_try_from(blob_)
                      IN  IF IsOk(crsn) /\ crsn.val # None
                          THEN Ok(CRSN(crsn.val[1].min_nonce, crsn.val[1].size))
                          ELSE IF IsErr(res) THEN res
                          ELSE Ok(Sequential(res.val.sequence_number))

(***************************************************************************)
(* The DbReader.  A read of the latest tree state succeeds or fails; the   *)
(* outcome of one read is an input of the operation that makes it.         *)
(***************************************************************************)
\* "err": get_latest_tree_state or into_ledger_view returns Err
ReadOutcomes == {"ok", "err"}

\* a VerifiedStateView: the ledger view at base_version, read through reader
StateView(version, reader) ==
    [tag |-> "view", version |-> version, reader |-> reader]

\* a read of the genesis state instead of the latest one
latest_state_view_Genesis(db_reader, outcome) ==
    IF outcome # "ok" THEN Panic("Should not fail.")
    ELSE IF db[db_reader] = NoVersion THEN Panic("Must be bootstrapped.")
    ELSE StateView(0, db_reader)

\* fn latest_state_view(db_reader): the three expect() calls panic
latest_state_view(db_reader, outcome) ==
    IF outcome # "ok" THEN Panic("Should not fail.")
    ELSE IF db[db_reader] = NoVersion THEN Panic("Must be bootstrapped.")
    ELSE StateView(db[db_reader], db_reader)

(***************************************************************************)
(* The VM oracle (aptos_vm::AptosVM), opaque: a VM is the term of what it  *)
(* was built from, and its verdict the term of what it was asked.          *)
(***************************************************************************)
AptosVM_new_for_validation(state) ==
    [kind |-> "new_for_validation", state |-> state]

AptosVM_init_with_config(version, vm_config, publishing_option) ==
    [kind |-> "init_with_config", version |-> version,
     vm_config |-> vm_config, publishing_option |-> publishing_option]

AptosVM_validate_transaction(vm, txn, state_view) ==
    [vm |-> vm, txn |-> txn, state_view |-> state_view]

(***************************************************************************)
(* The on-chain configuration payload handed to restart: the epoch it is   *)
(* of and the configurations it holds.  get::<T>() gives the value of T at *)
(* that epoch, or an error when the payload does not hold T.               *)
(***************************************************************************)
ConfigIds == {"VMConfig", "AptosVersion", "VMPublishingOption"}

ConfigPayloads == [epoch : Epochs, configs : SUBSET ConfigIds]

\* OnChainConfigPayload::get::<T>()
config_get(config, T) ==
    IF T \in config.configs THEN Ok([config |-> T, epoch |-> config.epoch])
    ELSE Err([msg |-> "config not in payload", config |-> T])

(***************************************************************************)
(* VMValidator: each method is a function of the receiver (and of the      *)
(* outcome of the read it makes) to the receiver afterwards and the value  *)
(* returned.  A panic leaves the receiver as it was found.                 *)
(***************************************************************************)
\* a constructor that tolerates the failed read and leaves the view unset
VMValidator_new_Unchecked(db_reader, outcome) ==
    LET cached_state_view == latest_state_view(db_reader, outcome)
        unset == StateView(NoVersion, db_reader)
    IN  IF IsPanic(cached_state_view)
        THEN Ok([tag |-> "validator",
                 db_reader |-> db_reader,
                 cached_state_view |-> unset,
                 vm |-> AptosVM_new_for_validation(unset)])
        ELSE Ok([tag |-> "validator",
                 db_reader |-> db_reader,
                 cached_state_view |-> cached_state_view,
                 vm |-> AptosVM_new_for_validation(cached_state_view)])

\* VMValidator::new: the value built, or the panic of latest_state_view
VMValidator_new(db_reader, outcome) ==
    LET cached_state_view == latest_state_view(db_reader, outcome)
    IN  IF IsPanic(cached_state_view) THEN cached_state_view
        ELSE Ok([tag |-> "validator",
                 db_reader |-> db_reader,
                 cached_state_view |-> cached_state_view,
                 vm |-> AptosVM_new_for_validation(cached_state_view)])

\* a derived Clone: the fields are copied
VMValidator_clone_Copy(self, outcome) ==
    Ok(self)

\* impl Clone for VMValidator
VMValidator_clone(self, outcome) ==
    VMValidator_new(self.db_reader, outcome)

\* validation against the reader's latest state instead of the cached view
VMValidator_validate_transaction_Latest(self, txn) ==
    [self |-> self,
     ret  |-> Ok(AptosVM_validate_transaction(
                    self.vm, txn, StateView(db[self.db_reader], self.db_reader)))]

\* fn validate_transaction(&self, txn)
VMValidator_validate_transaction(self, txn) ==
    IF FailPointsEnabled
    THEN [self |-> self,
          ret  |-> Err(Msg("Injected error in vm_validator::validate_transaction"))]
    ELSE [self |-> self,
          ret  |-> Ok(AptosVM_validate_transaction(
                         self.vm, txn, self.cached_state_view))]

\* a notify_commit that keeps the view it has
VMValidator_notify_commit_Keep(self, outcome) ==
    [self |-> self, ret |-> Ok("unit")]

\* a notify_commit that rebuilds the VM on the new view, as new does
VMValidator_notify_commit_Rebuild(self, outcome) ==
    LET view == latest_state_view(self.db_reader, outcome)
    IN  IF IsPanic(view) THEN [self |-> self, ret |-> view]
        ELSE [self |-> [self EXCEPT !.cached_state_view = view,
                                    !.vm = AptosVM_new_for_validation(view)],
              ret  |-> Ok("unit")]

\* fn notify_commit(&mut self)
VMValidator_notify_commit(self, outcome) ==
    LET view == latest_state_view(self.db_reader, outcome)
    IN  IF IsPanic(view) THEN [self |-> self, ret |-> view]
        ELSE [self |-> [self EXCEPT !.cached_state_view = view],
              ret  |-> Ok("unit")]

\* a restart that replaces the VM and keeps the view it has
VMValidator_restart_NoRefresh(self, config, outcome) ==
    LET vm_config == config_get(config, "VMConfig")
        version == config_get(config, "AptosVersion")
        publishing_option == config_get(config, "VMPublishingOption")
    IN  IF IsErr(vm_config) THEN [self |-> self, ret |-> vm_config]
        ELSE IF IsErr(version) THEN [self |-> self, ret |-> version]
        ELSE IF IsErr(publishing_option)
             THEN [self |-> self, ret |-> publishing_option]
        ELSE [self |-> [self EXCEPT !.vm =
                            AptosVM_init_with_config(version.val, vm_config.val,
                                                     publishing_option.val)],
              ret  |-> Ok("unit")]

\* a restart that reads the configuration before it refreshes the view
VMValidator_restart_ConfigFirst(self, config, outcome) ==
    LET after_commit == VMValidator_notify_commit(self, outcome)
        vm_config == config_get(config, "VMConfig")
        version == config_get(config, "AptosVersion")
        publishing_option == config_get(config, "VMPublishingOption")
    IN  IF IsErr(vm_config) THEN [self |-> self, ret |-> vm_config]
        ELSE IF IsErr(version) THEN [self |-> self, ret |-> version]
        ELSE IF IsErr(publishing_option)
             THEN [self |-> self, ret |-> publishing_option]
        ELSE IF IsPanic(after_commit.ret) THEN after_commit
        ELSE [self |-> [after_commit.self EXCEPT !.vm =
                            AptosVM_init_with_config(version.val, vm_config.val,
                                                     publishing_option.val)],
              ret  |-> Ok("unit")]

\* fn restart(&mut self, config)
VMValidator_restart(self, config, outcome) ==
    LET after_commit == VMValidator_notify_commit(self, outcome)
        vm_config == config_get(config, "VMConfig")
        version == config_get(config, "AptosVersion")
        publishing_option == config_get(config, "VMPublishingOption")
    IN  IF IsPanic(after_commit.ret) THEN after_commit
        ELSE IF IsErr(vm_config) THEN [self |-> after_commit.self, ret |-> vm_config]
        ELSE IF IsErr(version) THEN [self |-> after_commit.self, ret |-> version]
        ELSE IF IsErr(publishing_option)
             THEN [self |-> after_commit.self, ret |-> publishing_option]
        ELSE [self |-> [after_commit.self EXCEPT !.vm =
                            AptosVM_init_with_config(version.val, vm_config.val,
                                                     publishing_option.val)],
              ret  |-> Ok("unit")]

Live(h) == validators[h] # NoValidator

\* a shared borrow (&self) of validators[h] is held by a call in flight
Borrowed(h) == \E t \in Threads : calls[t] # Idle /\ calls[t].h = h

\* no exclusion between a refresh and the calls in flight
Exclusive_None(h) == TRUE

\* a &mut self receiver: no other borrow of validators[h] is live
Exclusive(h) == ~Borrowed(h)

\* the variables of the other specifications, and their idle values
nonValVars == <<blobVars, verVars, seqVars>>
BlobIdle == blob = NoBlob /\ copy = NoBlob /\ blobOp = NoOp
VerIdle  == swp = NoStateWithProof /\ verified = NoOp
SeqIdle  == accounts = [a \in Addresses |-> None] /\ seqOp = NoOp

Init ==
    /\ db = [r \in Readers |-> NoVersion]
    /\ validators = [h \in Handles |-> NoValidator]
    /\ calls = [t \in Threads |-> Idle]
    /\ refreshed = [h \in Handles |-> NoVersion]
    /\ lastOp = NoOp
    /\ BlobIdle /\ VerIdle /\ SeqIdle

\* the storage commits one more transaction (the first one bootstraps it)
Commit(r) ==
    /\ db[r] < MaxVersion
    /\ db' = [db EXCEPT ![r] = db[r] + 1]
    /\ lastOp' = [op |-> "commit", reader |-> r]
    /\ UNCHANGED <<validators, calls, refreshed>>
    /\ UNCHANGED nonValVars

\* let v = VMValidator::new(db_reader), into the free handle h
New(h, r, outcome) ==
    /\ ~Live(h)
    /\ LET v == VMValidator_new(r, outcome)
       IN  /\ validators' = IF IsOk(v) THEN [validators EXCEPT ![h] = v.val]
                            ELSE validators
           /\ refreshed' = IF IsOk(v) THEN [refreshed EXCEPT ![h] = db[r]]
                           ELSE refreshed
           /\ lastOp' = [op |-> "new", h |-> h, outcome |-> outcome,
                         ret |-> IF IsOk(v) THEN Ok("Self") ELSE v]
    /\ UNCHANGED <<db, calls>>
    /\ UNCHANGED nonValVars

\* let v2 = v.clone(), into the free handle h2
Clone(h, h2, outcome) ==
    /\ Live(h)
    /\ ~Live(h2)
    /\ LET v == VMValidator_clone(validators[h], outcome)
       IN  /\ validators' = IF IsOk(v) THEN [validators EXCEPT ![h2] = v.val]
                            ELSE validators
           /\ refreshed' = IF IsOk(v)
                           THEN [refreshed EXCEPT
                                    ![h2] = db[validators[h].db_reader]]
                           ELSE refreshed
           /\ lastOp' = [op |-> "clone", h |-> h, h2 |-> h2,
                         outcome |-> outcome,
                         ret |-> IF IsOk(v) THEN Ok("Self") ELSE v]
    /\ UNCHANGED <<db, calls>>
    /\ UNCHANGED nonValVars

\* thread t enters validators[h].validate_transaction(txn): it borrows the
\* validator, and with it the cached view, for the time of the call
ValidateCall(t, h, txn) ==
    /\ calls[t] = Idle
    /\ Live(h)
    /\ calls' = [calls EXCEPT ![t] =
                    [tag |-> "validate_transaction", h |-> h, txn |-> txn,
                     view |-> validators[h].cached_state_view]]
    /\ lastOp' = [op |-> "validate_transaction_call", h |-> h, txn |-> txn]
    /\ UNCHANGED <<db, validators, refreshed>>
    /\ UNCHANGED nonValVars

\* thread t's validate_transaction returns
ValidateReturn(t) ==
    /\ calls[t] # Idle
    /\ LET h == calls[t].h
           r == VMValidator_validate_transaction(validators[h], calls[t].txn)
       IN  /\ validators' = [validators EXCEPT ![h] = r.self]
           /\ lastOp' = [op |-> "validate_transaction", h |-> h,
                         txn |-> calls[t].txn, started_on |-> calls[t].view,
                         ret |-> r.ret]
    /\ calls' = [calls EXCEPT ![t] = Idle]
    /\ UNCHANGED <<db, refreshed>>
    /\ UNCHANGED nonValVars

\* validators[h].notify_commit()
NotifyCommit(h, outcome) ==
    /\ Live(h)
    /\ Exclusive(h)
    /\ LET r == VMValidator_notify_commit(validators[h], outcome)
       IN  /\ validators' = [validators EXCEPT ![h] = r.self]
           /\ refreshed' = IF IsOk(r.ret)
                          THEN [refreshed EXCEPT ![h] = db[validators[h].db_reader]]
                          ELSE refreshed
           /\ lastOp' = [op |-> "notify_commit", h |-> h,
                         outcome |-> outcome, ret |-> r.ret]
    /\ UNCHANGED <<db, calls>>
    /\ UNCHANGED nonValVars

\* validators[h].restart(config)
Restart(h, config, outcome) ==
    /\ Live(h)
    /\ Exclusive(h)
    /\ LET r == VMValidator_restart(validators[h], config, outcome)
       IN  /\ validators' = [validators EXCEPT ![h] = r.self]
           /\ refreshed' = IF IsPanic(r.ret)
                          THEN refreshed
                          ELSE [refreshed EXCEPT ![h] = db[validators[h].db_reader]]
           /\ lastOp' = [op |-> "restart", h |-> h,
                         outcome |-> outcome, ret |-> r.ret]
    /\ UNCHANGED <<db, calls>>
    /\ UNCHANGED nonValVars

Next ==
    \/ \E r \in Readers : Commit(r)
    \/ \E h \in Handles, r \in Readers, o \in ReadOutcomes : New(h, r, o)
    \/ \E h, h2 \in Handles, o \in ReadOutcomes : Clone(h, h2, o)
    \/ \E t \in Threads, h \in Handles, txn \in Txns : ValidateCall(t, h, txn)
    \/ \E t \in Threads : ValidateReturn(t)
    \/ \E h \in Handles, o \in ReadOutcomes : NotifyCommit(h, o)
    \/ \E h \in Handles, c \in ConfigPayloads, o \in ReadOutcomes : Restart(h, c, o)

Spec == Init /\ [][Next]_vars

(***************************************************************************)
(* Specification SpecBlob: a blob is made along one of the construction    *)
(* paths, operated on, cloned, and encoded and decoded again.              *)
(***************************************************************************)
ValIdle ==
    /\ db = [r \in Readers |-> NoVersion]
    /\ validators = [h \in Handles |-> NoValidator]
    /\ calls = [t \in Threads |-> Idle]
    /\ refreshed = [h \in Handles |-> NoVersion]
    /\ lastOp = NoOp

nonBlobVars == <<valVars, verVars, seqVars>>

\* the inputs of deserialization: a length and bytes, that many or not
DeserializeInputs ==
    {<<>>} \cup {<<n>> \o b : n \in 0..(MaxLen + 1), b \in ByteSeqs}

\* #[derive(Clone)]
AccountStateBlob_clone(self) == self

InitBlob == ValIdle /\ BlobIdle /\ VerIdle /\ SeqIdle

\* the blob in hand becomes `made`, the result of a construction path
Constructed(path, made) ==
    /\ blob' = IF IsOk(made) THEN made.val ELSE NoBlob
    /\ copy' = NoBlob
    /\ blobOp' = [op |-> path, ret |-> IF IsOk(made) THEN Ok("Self") ELSE made]

FromBytes(bytes) ==
    /\ blob = NoBlob
    /\ Constructed("from_bytes", Ok(AccountStateBlob_from_bytes(bytes)))
    /\ UNCHANGED nonBlobVars

TryFromAccountState(account_state) ==
    /\ blob = NoBlob
    /\ Constructed("try_from_account_state",
                   AccountStateBlob_try_from_AccountState(account_state))
    /\ UNCHANGED nonBlobVars

TryFromResources(sequence_number, balance) ==
    /\ blob = NoBlob
    /\ Constructed("try_from_resources",
                   AccountStateBlob_try_from_resources(sequence_number, balance))
    /\ UNCHANGED nonBlobVars

Deserialize(input) ==
    /\ blob = NoBlob
    /\ Constructed("deserialize", AccountStateBlob_deserialize(input))
    /\ UNCHANGED nonBlobVars

CloneBlob ==
    /\ blob # NoBlob
    /\ copy' = AccountStateBlob_clone(blob)
    /\ blobOp' = [op |-> "clone", ret |-> Ok("Self")]
    /\ UNCHANGED blob
    /\ UNCHANGED nonBlobVars

\* assert_canonical_encode_decode: the blob is encoded and the bytes decoded
RoundTrip ==
    /\ blob # NoBlob
    /\ LET bytes == AccountStateBlob_serialize(blob)
           back == AccountStateBlob_deserialize(bytes)
       IN  /\ copy' = IF IsOk(back) THEN back.val ELSE NoBlob
           /\ blobOp' = [op |-> "bcs_roundtrip", bytes |-> bytes,
                         ret |-> IF IsOk(back) THEN Ok("Self") ELSE back]
    /\ UNCHANGED blob
    /\ UNCHANGED nonBlobVars

\* one of the operations that take the blob by reference
ReadBlob(op) ==
    /\ blob # NoBlob
    /\ LET r == AccountStateBlob_read(blob, op)
       IN  /\ blob' = r.self
           /\ blobOp' = [op |-> op, ret |-> r.ret]
    /\ UNCHANGED copy
    /\ UNCHANGED nonBlobVars

\* the blob and its copy go out of scope
DropBlob ==
    /\ blob # NoBlob
    /\ blob' = NoBlob
    /\ copy' = NoBlob
    /\ blobOp' = NoOp
    /\ UNCHANGED nonBlobVars

NextBlob ==
    \/ \E b \in ByteSeqs : FromBytes(b)
    \/ \E a \in AccountStates : TryFromAccountState(a)
    \/ \E n \in Words, c \in Words : TryFromResources(n, c)
    \/ \E i \in DeserializeInputs : Deserialize(i)
    \/ CloneBlob
    \/ RoundTrip
    \/ \E op \in BlobReadOps : ReadBlob(op)
    \/ DropBlob

SpecBlob == InitBlob /\ [][NextBlob]_vars

(***************************************************************************)
(* Specification SpecVerify: a state-with-proof arrives from a storage     *)
(* read and is verified against a ledger info, a version and an address.   *)
(***************************************************************************)
nonVerVars == <<valVars, blobVars, seqVars>>

\* the blobs and the proofs a state-with-proof may carry
ProvedBlobs == {None} \cup
               {Some(AccountStateBlob_from_bytes(b)) : b \in SeqsUpTo(ByteVals, 1)}
AccountStateProofs ==
    [root : Roots, version : Versions,
     key : {AccountAddress_hash(a) : a \in Addresses},
     leaf : {blob_hash(b) : b \in ProvedBlobs}]

InitVerify == ValIdle /\ BlobIdle /\ VerIdle /\ SeqIdle

NewStateWithProof(version, opt_blob, proof) ==
    /\ swp = NoStateWithProof
    /\ swp' = AccountStateWithProof_new(version, opt_blob, proof)
    /\ verified' = NoOp
    /\ UNCHANGED nonVerVars

Verify(ledger_info, version, address) ==
    /\ swp # NoStateWithProof
    /\ verified' = [op |-> "verify", ledger_info |-> ledger_info,
                    version |-> version, address |-> address,
                    ret |-> AccountStateWithProof_verify(
                               swp, ledger_info, version, address)]
    /\ UNCHANGED swp
    /\ UNCHANGED nonVerVars

DropStateWithProof ==
    /\ swp # NoStateWithProof
    /\ swp' = NoStateWithProof
    /\ verified' = NoOp
    /\ UNCHANGED nonVerVars

NextVerify ==
    \/ \E v \in Versions, b \in ProvedBlobs, p \in AccountStateProofs :
          NewStateWithProof(v, b, p)
    \/ \E li \in LedgerInfos, v \in Versions, a \in Addresses : Verify(li, v, a)
    \/ DropStateWithProof

SpecVerify == InitVerify /\ [][NextVerify]_vars

(***************************************************************************)
(* Properties of AccountStateWithProof::verify (specification SpecVerify). *)
(***************************************************************************)
\* what the proof verifier answers to the query of the last verify call
ProofAnswer ==
    AccountStateProof_verify(swp.proof, verified.ledger_info, verified.version,
                             AccountAddress_hash(verified.address), swp.blob)

\* C5: verify called with a version other than the one the state-with-proof
\* carries returns the version error, whatever the blob, the proof and the
\* ledger info are: the proof check does not decide the outcome.
C5_VersionGating ==
    (verified.op = "verify" /\ swp.version # verified.version) =>
        verified.ret = Err(VersionMismatch(swp.version, verified.version))

\* a version mismatch on a proof that answers the requested version
C5_Witness ==
    /\ verified.op = "verify"
    /\ swp.version # verified.version
    /\ IsOk(ProofAnswer)
    /\ IsErr(verified.ret)

\* C6: verify succeeds if and only if the carried version is the requested
\* one and the proof verifier accepts (ledger info, version, Hash(address),
\* optional blob); any failure of either check is returned as an error.
C6_VerifyIffBoth ==
    verified.op = "verify" =>
        /\ IsOk(verified.ret) <=>
              (swp.version = verified.version /\ IsOk(ProofAnswer))
        /\ ~IsOk(verified.ret) => IsErr(verified.ret)
        /\ (swp.version = verified.version /\ IsErr(ProofAnswer)) =>
              verified.ret = ProofAnswer

\* a verify that succeeded on an existing account's blob
C6_Witness ==
    /\ verified.op = "verify"
    /\ IsOk(verified.ret)
    /\ swp.blob # None
    /\ swp.proof.leaf = Some(hash_blob(swp.blob[1].blob))

(***************************************************************************)
(* Specification SpecSeq: commits write account states into the storage    *)
(* and get_account_sequence_number resolves addresses against it.          *)
(***************************************************************************)
nonSeqVars == <<valVars, blobVars, verVars>>

\* the blobs the storage may hold: encoded account states, and raw bytes
StoredBlobs ==
    {AccountStateBlob_try_from_AccountState(a).val : a \in AccountStates}
       \cup {AccountStateBlob_from_bytes(b) : b \in ByteSeqs}

InitSeq == ValIdle /\ BlobIdle /\ VerIdle /\ SeqIdle

\* a commit writes the state of account a
StoreAccount(a, account_state_blob) ==
    /\ accounts' = [accounts EXCEPT ![a] = Some(account_state_blob)]
    /\ seqOp' = NoOp
    /\ UNCHANGED nonSeqVars

GetAccountSequenceNumber(a, outcome) ==
    /\ seqOp' = [op |-> "get_account_sequence_number", address |-> a,
                 outcome |-> outcome,
                 ret |-> get_account_sequence_number(accounts, a, outcome)]
    /\ UNCHANGED accounts
    /\ UNCHANGED nonSeqVars

NextSeq ==
    \/ \E a \in Addresses, b \in StoredBlobs : StoreAccount(a, b)
    \/ \E a \in Addresses, o \in ReadOutcomes : GetAccountSequenceNumber(a, o)

SpecSeq == InitSeq /\ [][NextSeq]_vars

(***************************************************************************)
(* Properties of get_account_sequence_number (specification SpecSeq).      *)
(***************************************************************************)
Resolved == seqOp.op = "get_account_sequence_number" /\ seqOp.outcome = "ok"

\* the account state the resolved address decodes to, when it does
ResolvedState == bcs_from_bytes_AccountState(accounts[seqOp.address][1].blob)

\* C9: when the reader reports no state for the address, the result is
\* Sequential(0) and not an error.
C9_AbsentAccount ==
    (Resolved /\ accounts[seqOp.address] = None) =>
        seqOp.ret = Ok(Sequential(0))

\* an absent account resolved while the storage holds another account
C9_Witness ==
    /\ Resolved
    /\ accounts[seqOp.address] = None
    /\ \E a \in Addresses : accounts[a] # None
    /\ seqOp.ret = Ok(Sequential(0))

\* C10: when the account exists and its state carries a CRSN resource, the
\* result is the CRSN variant with that resource's min_nonce and size,
\* whatever the account resource is: present, absent or not decodable.
C10_WindowedNonce ==
    (/\ Resolved
     /\ accounts[seqOp.address] # None
     /\ IsOk(ResolvedState)
     /\ CRSNResource_path \in DOMAIN ResolvedState.val
     /\ IsOk(bcs_from_bytes_CRSNResource(
                ResolvedState.val[CRSNResource_path]))) =>
        seqOp.ret = Ok(CRSN(ResolvedState.val[CRSNResource_path][1],
                            ResolvedState.val[CRSNResource_path][2]))

\* a CRSN account whose account resource does not decode
C10_Witness ==
    /\ Resolved
    /\ accounts[seqOp.address] # None
    /\ IsOk(ResolvedState)
    /\ CRSNResource_path \in DOMAIN ResolvedState.val
    /\ AccountResource_path \in DOMAIN ResolvedState.val
    /\ IsErr(AccountResource_try_from(accounts[seqOp.address][1]))
    /\ seqOp.ret.tag = "Ok"
    /\ seqOp.ret.val.tag = "CRSN"
    /\ seqOp.ret.val.min_nonce # seqOp.ret.val.size

\* C11: when the account exists and its state carries no CRSN resource, the
\* result is Sequential(n), n the sequence number stored in the account
\* resource.
C11_LegacyCounter ==
    (/\ Resolved
     /\ accounts[seqOp.address] # None
     /\ IsOk(ResolvedState)
     /\ CRSNResource_path \notin DOMAIN ResolvedState.val
     /\ AccountResource_path \in DOMAIN ResolvedState.val
     /\ IsOk(bcs_from_bytes_AccountResource(
                ResolvedState.val[AccountResource_path]))) =>
        seqOp.ret = Ok(Sequential(ResolvedState.val[AccountResource_path][1]))

\* an account without a CRSN resource whose stored sequence number is not 0
C11_Witness ==
    /\ Resolved
    /\ accounts[seqOp.address] # None
    /\ IsOk(ResolvedState)
    /\ DOMAIN ResolvedState.val = {AccountResource_path}
    /\ seqOp.ret.tag = "Ok"
    /\ seqOp.ret.val.tag = "Sequential"
    /\ seqOp.ret.val.seqno > 0

\* the resources of the resolved account's state whose bytes do not decode
CorruptCRSNResource ==
    /\ IsOk(ResolvedState)
    /\ CRSNResource_path \in DOMAIN ResolvedState.val
    /\ IsErr(bcs_from_bytes_CRSNResource(ResolvedState.val[CRSNResource_path]))
CorruptAccountResource ==
    /\ IsOk(ResolvedState)
    /\ AccountResource_path \in DOMAIN ResolvedState.val
    /\ IsErr(bcs_from_bytes_AccountResource(
                ResolvedState.val[AccountResource_path]))

\* the state carries a CRSN resource that decodes: the resolution returns it
\* without reading the account resource (C10)
ValidCRSNResource ==
    /\ IsOk(ResolvedState)
    /\ CRSNResource_path \in DOMAIN ResolvedState.val
    /\ IsOk(bcs_from_bytes_CRSNResource(ResolvedState.val[CRSNResource_path]))

\* C12: for an existing account, a decode failure of the account state blob,
\* of the CRSN resource or of the account resource (where the resolution
\* reads it) makes the resolution return an error: it falls back to no other
\* variant and to no default.
C12_NeverMasksCorruptState ==
    (/\ Resolved
     /\ accounts[seqOp.address] # None
     /\ \/ IsErr(ResolvedState)
        \/ CorruptCRSNResource
        \/ (CorruptAccountResource /\ ~ValidCRSNResource)) =>
        IsErr(seqOp.ret)

(***************************************************************************)
(* Properties of AccountStateBlob (specification SpecBlob).                *)
(***************************************************************************)
\* C7: every blob, by whichever construction path it was made (raw bytes,
\* an AccountState, resources, deserialization, clone), has
\* hash = Hash(bytes), and no operation on a blob changes its bytes or hash.
C7_HashBinding ==
    [][ /\ blob' # NoBlob => blob'.hash = hash_blob(blob'.blob)
        /\ copy' # NoBlob => copy'.hash = hash_blob(copy'.blob)
        /\ blobOp'.op \in BlobReadOps \cup {"clone", "bcs_roundtrip"} =>
              blob' = blob
      ]_vars

\* the hash of a cloned, non-empty blob was read
C7_Witness ==
    /\ blobOp.op = "hash"
    /\ blob.blob # <<>>
    /\ blobOp.ret = hash_blob(blob.blob)
    /\ copy # NoBlob

\* C8: decoding the encoding of a blob gives a blob equal to it in bytes and
\* in hash, though the encoding holds the bytes alone and not the hash.
C8_BlobRoundTrip ==
    blobOp.op = "bcs_roundtrip" =>
        /\ IsOk(blobOp.ret)
        /\ copy # NoBlob
        /\ copy.blob = blob.blob
        /\ copy.hash = blob.hash
        /\ blobOp.bytes = <<Len(blob.blob)>> \o blob.blob

\* a non-empty blob made from an AccountState went through the round trip
C8_Witness ==
    /\ blobOp.op = "bcs_roundtrip"
    /\ Len(blob.blob) > 1
    /\ IsOk(bcs_from_bytes_AccountState(blob.blob))
    /\ copy = blob

\* the value of a hexadecimal digit
HexValue(d) == (CHOOSE i \in 1..16 : HexDigits[i] = d) - 1

\* C16: the Debug rendering of a blob completes for every byte sequence,
\* with bytes that do not decode as an AccountState too: it gives the raw
\* bytes in hexadecimal and either the decoded state or the label "[fail]",
\* and never the decode error.
C16_DebugIsTotal ==
    blobOp.op = "fmt" =>
        /\ IsOk(blobOp.ret)
        /\ Len(blobOp.ret.val.Raw) = 2 * Len(blob.blob)
        /\ \A i \in 1..Len(blob.blob) :
              16 * HexValue(blobOp.ret.val.Raw[2 * i - 1])
                 + HexValue(blobOp.ret.val.Raw[2 * i]) = blob.blob[i]
        /\ LET account_state == bcs_from_bytes_AccountState(blob.blob)
           IN  IF IsOk(account_state)
               THEN /\ blobOp.ret.val.Decoded.label = "AccountState"
                    /\ blobOp.ret.val.Decoded.state = account_state.val
               ELSE blobOp.ret.val.Decoded = [label |-> "[fail]"]

\* bytes that are no AccountState were rendered, with the fallback label
C16_Witness ==
    /\ blobOp.op = "fmt"
    /\ blob.blob # <<>>
    /\ IsErr(bcs_from_bytes_AccountState(blob.blob))
    /\ IsOk(blobOp.ret)
    /\ blobOp.ret.val.Decoded.label = "[fail]"

(***************************************************************************)
(* Properties of the VMValidator (specification Spec).                     *)
(***************************************************************************)
TypeOK ==
    /\ db \in [Readers -> {NoVersion} \cup Versions]
    /\ \A h \in Handles :
          Live(h) =>
             /\ validators[h].db_reader \in Readers
             /\ validators[h].cached_state_view.version \in Versions
    /\ refreshed \in [Handles -> {NoVersion} \cup Versions]

\* C1: once notify_commit has returned on a validator, every later
\* validate_transaction on it is evaluated on a cached view whose version is
\* at or after the reader's latest version at the time of that notify_commit
\* (refreshed[h], which before the first notify_commit is the version at
\* construction).
C1_CacheCoherence ==
    /\ \A h \in Handles :
          Live(h) => validators[h].cached_state_view.version >= refreshed[h]
    /\ (lastOp.op = "validate_transaction" /\ IsOk(lastOp.ret)) =>
          lastOp.ret.val.state_view.version >= refreshed[lastOp.h]

\* a validation answered after a commit and the notify_commit that followed:
\* the view is newer than the one the validator was constructed on
C1_Witness ==
    /\ lastOp.op = "validate_transaction"
    /\ IsOk(lastOp.ret)
    /\ refreshed[lastOp.h] > 0
    /\ lastOp.ret.val.state_view.version = refreshed[lastOp.h]
    /\ lastOp.ret.val.vm.kind = "new_for_validation"
    /\ lastOp.ret.val.vm.state.version < refreshed[lastOp.h]

\* C2: a validate_transaction call in flight sees one complete cached view,
\* the one current when it started, until it returns: no refresh replaces
\* the view of a validator that a call is in flight on.
C2_InFlightViewStable ==
    /\ \A t \in Threads :
          calls[t] # Idle =>
             /\ validators[calls[t].h].cached_state_view = calls[t].view
             /\ calls[t].view.reader = validators[calls[t].h].db_reader
    /\ (lastOp.op = "validate_transaction" /\ IsOk(lastOp.ret)) =>
          lastOp.ret.val.state_view = lastOp.started_on

\* two calls overlapped on one validator whose reader had committed past the
\* cached view: one has returned, the other is still in flight
C2_Witness ==
    /\ lastOp.op = "validate_transaction"
    /\ \E t \in Threads :
          /\ calls[t] # Idle
          /\ calls[t].h = lastOp.h
          /\ db[validators[calls[t].h].db_reader] > calls[t].view.version
          /\ refreshed[calls[t].h] = calls[t].view.version

\* C3: a clone is a fresh construct against the same reader (its view is
\* the reader's latest state at clone time, its VM built on that view), and
\* a notify_commit or restart on one handle leaves every other handle's
\* validator as it was.
C3_CloneIsFresh ==
    [][ /\ (lastOp'.op = "clone" /\ IsOk(lastOp'.ret)) =>
              LET src == validators[lastOp'.h]
                  new == validators'[lastOp'.h2]
                  latest == StateView(db[src.db_reader], src.db_reader)
              IN  /\ new.db_reader = src.db_reader
                  /\ new.cached_state_view = latest
                  /\ new.vm = AptosVM_new_for_validation(latest)
                  /\ validators'[lastOp'.h] = src
        /\ lastOp'.op \in {"notify_commit", "restart"} =>
              \A g \in Handles \ {lastOp'.h} : validators'[g] = validators[g]
      ]_vars

\* a clone taken after a commit the original was not told of: the clone's
\* view is newer than the original's, which stays as it was
C3_Witness ==
    /\ lastOp.op = "clone"
    /\ IsOk(lastOp.ret)
    /\ validators[lastOp.h2].db_reader = validators[lastOp.h].db_reader
    /\ validators[lastOp.h2].cached_state_view.version
          > validators[lastOp.h].cached_state_view.version

\* C4: validate_transaction is read-only: the validator (cached view, VM,
\* reader handle) and the reader are after the call as before it, and the
\* value returned is the VM's verdict on the cached view.
C4_ValidateReadOnly ==
    [][ /\ lastOp'.op = "validate_transaction_call" =>
              /\ validators' = validators
              /\ db' = db
        /\ lastOp'.op = "validate_transaction" =>
              /\ validators' = validators
              /\ db' = db
              /\ lastOp'.ret =
                    Ok(AptosVM_validate_transaction(
                          validators[lastOp'.h].vm, lastOp'.txn,
                          validators[lastOp'.h].cached_state_view))
      ]_vars

\* a verdict returned on a cached view older than the reader's latest state
C4_Witness ==
    /\ lastOp.op = "validate_transaction"
    /\ IsOk(lastOp.ret)
    /\ lastOp.ret.val.state_view = validators[lastOp.h].cached_state_view
    /\ lastOp.ret.val.state_view.version < db[validators[lastOp.h].db_reader]

\* the operations that read the latest tree state through latest_state_view
ReadsTreeState == {"new", "clone", "notify_commit", "restart"}

\* C13: when the reader fails while new (or clone), notify_commit or restart
\* reads the latest tree state, the operation returns that failure to its
\* caller as an error value.
C13_ReadFailuresReturned ==
    (lastOp.op \in ReadsTreeState /\ lastOp.outcome = "err") =>
        IsErr(lastOp.ret)

\* a cached view that was read from the reader's tree state
HoldsView(view) == view.tag = "view" /\ view.version \in Versions

\* C15: no validation verdict is produced from a validator that holds no
\* cached view: a call is in flight only on a constructed validator whose
\* view was read, and every verdict returned is on such a view.
C15_NoVerdictWithoutView ==
    /\ \A t \in Threads :
          calls[t] # Idle =>
             /\ Live(calls[t].h)
             /\ HoldsView(validators[calls[t].h].cached_state_view)
             /\ HoldsView(calls[t].view)
    /\ (lastOp.op = "validate_transaction" /\ IsOk(lastOp.ret)) =>
          /\ Live(lastOp.h)
          /\ HoldsView(lastOp.ret.val.state_view)

\* a construct failed on one handle, which holds no validator, while a
\* validation is in flight on the other
C15_Witness ==
    /\ lastOp.op = "new"
    /\ IsPanic(lastOp.ret)
    /\ ~Live(lastOp.h)
    /\ \E t \in Threads : calls[t] # Idle /\ calls[t].h # lastOp.h

\* the reader's latest state as self's reader gives it before the step
LatestView(self) == StateView(db[self.db_reader], self.db_reader)

\* C17: a restart that returns Ok has refreshed the cached view as
\* notify_commit does (to the reader's latest state) and replaced the VM by
\* one built from the new configuration's version, VM config and publishing
\* option; a validation returned afterwards is the verdict of the
\* validator's VM on its cached view.
C17_RestartRebuilds ==
    [][ /\ (lastOp'.op = "restart" /\ IsOk(lastOp'.ret)) =>
              \A c \in ConfigPayloads :
                 Restart(lastOp'.h, c, lastOp'.outcome) =>
                    LET self == validators[lastOp'.h]
                        after == validators'[lastOp'.h]
                    IN  /\ after.cached_state_view = LatestView(self)
                        /\ after.cached_state_view =
                              VMValidator_notify_commit(self, "ok")
                                 .self.cached_state_view
                        /\ after.vm =
                              AptosVM_init_with_config(
                                 [config |-> "AptosVersion", epoch |-> c.epoch],
                                 [config |-> "VMConfig", epoch |-> c.epoch],
                                 [config |-> "VMPublishingOption",
                                  epoch |-> c.epoch])
                        /\ after.db_reader = self.db_reader
        /\ (lastOp'.op = "validate_transaction" /\ IsOk(lastOp'.ret)) =>
              /\ lastOp'.ret.val.vm = validators'[lastOp'.h].vm
              /\ lastOp'.ret.val.state_view =
                    validators'[lastOp'.h].cached_state_view
      ]_vars

\* a validation answered by a VM built from a configuration, on a view that
\* the restart moved past the version at construction
C17_Witness ==
    /\ lastOp.op = "validate_transaction"
    /\ IsOk(lastOp.ret)
    /\ lastOp.ret.val.vm.kind = "init_with_config"
    /\ lastOp.ret.val.state_view.version > 0
    /\ lastOp.ret.val.state_view.version = db[validators[lastOp.h].db_reader]

\* C18: a restart that returns an error, the payload lacking the VM config,
\* the version or the publishing option, leaves the VM as it was and has
\* refreshed the cached view to the reader's latest state.
C18_FailedRestart ==
    [][ (lastOp'.op = "restart" /\ IsErr(lastOp'.ret)) =>
           LET self == validators[lastOp'.h]
               after == validators'[lastOp'.h]
           IN  /\ lastOp'.ret.err.config \in ConfigIds
               /\ after.vm = self.vm
               /\ after.cached_state_view = LatestView(self)
               /\ after.db_reader = self.db_reader
      ]_vars

\* a failed restart after a commit: the view is newer than the one the VM,
\* still the one of construction, was built on
C18_Witness ==
    /\ lastOp.op = "restart"
    /\ IsErr(lastOp.ret)
    /\ validators[lastOp.h].vm.kind = "new_for_validation"
    /\ validators[lastOp.h].vm.state.version
          < validators[lastOp.h].cached_state_view.version

\* the handle whose validator an operation of ReadsTreeState built or
\* refreshed
Target(op) == IF op.op = "clone" THEN op.h2 ELSE op.h

\* C19: while the reader's latest version never decreases, a validator's
\* cached view version never decreases, is never greater than the reader's
\* latest version, and equals it right after new, clone, notify_commit or
\* restart has returned.
C19_CachedVersionMonotonic ==
    [][ /\ \A r \in Readers : db'[r] >= db[r]
        /\ \A h \in Handles :
              Live(h) =>
                 /\ validators'[h] # NoValidator
                 /\ validators'[h].cached_state_view.version
                       >= validators[h].cached_state_view.version
        /\ \A h \in Handles :
              validators'[h] # NoValidator =>
                 validators'[h].cached_state_view.version
                    <= db'[validators'[h].db_reader]
        /\ (lastOp'.op \in ReadsTreeState /\ ~IsPanic(lastOp'.ret)) =>
              validators'[Target(lastOp')].cached_state_view.version
                 = db'[validators'[Target(lastOp')].db_reader]
      ]_vars

\* a notify_commit moved the view from the version of construction to the
\* reader's latest version, two commits later
C19_Witness ==
    /\ lastOp.op = "notify_commit"
    /\ IsOk(lastOp.ret)
    /\ validators[lastOp.h].vm.kind = "new_for_validation"
    /\ validators[lastOp.h].cached_state_view.version
          = db[validators[lastOp.h].db_reader]
    /\ validators[lastOp.h].cached_state_view.version
          >= validators[lastOp.h].vm.state.version + 2

\* C20: a commit at the reader leaves every validator as it is; the cached
\* view of a validator changes in its notify_commit and restart only, its
\* VM in its restart only, and its reader handle never; notify_commit
\* leaves the VM and the reader handle.
C20_ExplicitNotifications ==
    [][ /\ lastOp'.op = "commit" => validators' = validators
        /\ lastOp'.op = "notify_commit" =>
              /\ validators'[lastOp'.h].vm = validators[lastOp'.h].vm
              /\ validators'[lastOp'.h].db_reader
                    = validators[lastOp'.h].db_reader
        /\ \A h \in Handles :
              Live(h) =>
                 /\ validators'[h].db_reader = validators[h].db_reader
                 /\ validators'[h].cached_state_view
                       # validators[h].cached_state_view =>
                          /\ lastOp'.op \in {"notify_commit", "restart"}
                          /\ lastOp'.h = h
                 /\ validators'[h].vm # validators[h].vm =>
                       /\ lastOp'.op = "restart"
                       /\ lastOp'.h = h
      ]_vars

\* the reader committed and the validator was not told: it holds the view
\* of before the commit and a validation is in flight on that view
C20_Witness ==
    /\ lastOp.op = "commit"
    /\ \E t \in Threads :
          /\ calls[t] # Idle
          /\ calls[t].view = validators[calls[t].h].cached_state_view
          /\ calls[t].view.version < db[lastOp.reader]
          /\ validators[calls[t].h].db_reader = lastOp.reader

=============================================================================
